---- MODULE Spec2Model ----
(***************************************************************************)
(* Model of the AutoFixer webhook service: the GitHub webhook handler      *)
(* (pages/api/github-webhook.ts), the signature verifier                   *)
(* (lib/github-webhook.ts), the issue normalizer (lib/issue-parser.ts) and *)
(* the in-memory run store (lib/db.ts).                                    *)
(*                                                                         *)
(* Node runs the handler's synchronous code between two awaits as one      *)
(* atomic block, so every action below is one such block of one handler    *)
(* invocation; invocations interleave at their awaits.                     *)
(***************************************************************************)
EXTENDS Integers, Sequences, FiniteSets, TLC

\* Bounds of the model.
NReq == 2        \* webhook requests delivered to the process
NIssues == 2     \* distinct positive issue numbers
MaxTime == 1     \* the clock runs from 0 to MaxTime
MaxBody == 3     \* raw bodies 0..MaxBody of the verifier specification
NSecrets == 2    \* shared secrets 1..NSecrets of the verifier specification
MaxLen == 1      \* string fields of an event have length 0..MaxLen
MaxOut == 3      \* the agent command prints 0..MaxOut pieces of output
NKeys == 2       \* agent credentials 1..NKeys handed to createSandboxPair
MaxTitle == 3    \* a title is a run of the letter a followed by 0..MaxTitle characters

VARIABLES
  env,      \* process.env: which credentials are configured
  now,      \* the wall clock read by new Date()
  issues,   \* InMemoryDB.issues: issue number -> InMemoryIssue
  sandboxes,\* environments that exist at the provider
  pc,       \* per invocation: the await it is suspended at
  req,      \* per invocation: the request it serves
  run,      \* per invocation: the handler's local variables
  resp,     \* per invocation: the HTTP response sent
  vIn,      \* verifier specification: the input (payload, signature, secret)
  vOut,     \* verifier specification: the outcome of verifyGitHubSignature
  dbOp,     \* run-store specification: the update applied to the store
  cIn,      \* createSandboxPair: its arguments and the GITHUB_TOKEN it reads
  cPc,      \* createSandboxPair: the await it is suspended at
  cCalls,   \* createSandboxPair: the provider calls it has issued, in order
  cOut,     \* createSandboxPair: what its caller received
  aPc,      \* runClaudeCodeInSandbox: the await it is suspended at
  owner,    \* the account that owns the repository path of the AFTER sandbox
  aCmd,     \* runClaudeCodeInSandbox: commandResult, the agent command's response
  aOut,     \* runClaudeCodeInSandbox: what its caller received
  tree,     \* the working tree of the AFTER sandbox: "clean" or "dirty"
  timer,    \* runClaudeCodeInSandbox: its progress-poll interval
  pubOut,   \* createBranchAndPR: what it found and did
  pIn,      \* createBranchAndPR: its arguments
  pPc,      \* createBranchAndPR: the await it is suspended at
  pCalls,   \* createBranchAndPR: the remote calls issued and how each ended
  pulls,    \* the pull requests created at the hosting provider
  pRet,     \* createBranchAndPR: what its caller received
  sIn,      \* branch-name derivation: issue number and title
  sOut      \* branch-name derivation: the branch name

verifyVars == <<vIn, vOut>>
dbVars == <<dbOp>>
pairVars == <<cIn, cPc, cCalls, cOut>>
agentVars == <<aPc, owner, aCmd, aOut, tree, timer>>
publishVars == <<pubOut, pIn, pPc, pCalls, pulls, pRet>>
slugVars == <<sIn, sOut>>

\* The state of the units that are also specified on their own.
unitVars == <<verifyVars, dbVars, pairVars, agentVars, publishVars, slugVars>>

vars == <<env, now, issues, sandboxes, pc, req, run, resp, unitVars>>

Handlers == 1..NReq
IssueNumbers == 1..NIssues

----------------------------------------------------------------------------
(* lib/github-webhook.ts: verifyGitHubSignature                            *)

\* Strings are sequences of UTF-16 code units.
Sha256Prefix == <<115, 104, 97, 50, 53, 54, 61>>      \* 'sha256='

\* One lowercase hex digit as a character.
HexChar(d) == IF d < 10 THEN 48 + d ELSE 87 + d

\* crypto.createHmac('sha256', secret).update(payload).digest('hex'), cut down
\* to a one-byte keyed digest that is injective in the payload for a given
\* secret (37 is odd), printed as two lowercase hex digits.
HmacHex(secret, payload) ==
  LET v == (payload * 37 + secret * 101 + 7) % 256
  IN  <<HexChar(v \div 16), HexChar(v % 16)>>

\* Buffer.from(string): the UTF-8 encoding of one code unit.
Utf8Char(c) ==
  IF c < 128 THEN <<c>>
  ELSE IF c < 2048 THEN <<192 + (c \div 64), 128 + (c % 64)>>
  ELSE <<224 + (c \div 4096), 128 + ((c \div 64) % 64), 128 + (c % 64)>>

RECURSIVE BufferFrom(_)
BufferFrom(s) == IF s = <<>> THEN <<>> ELSE Utf8Char(Head(s)) \o BufferFrom(Tail(s))

\* crypto.timingSafeEqual: a RangeError when the byte lengths differ.
timingSafeEqual(a, b) ==
  IF Len(a) # Len(b) THEN "throw"
  ELSE IF a = b THEN "true" ELSE "false"

\* signature = <<>> stands for a missing (undefined) or empty header: both are
\* falsy.  The outcome is "true", "false" or "throw".
verifyGitHubSignature(payload, signature, secret) ==
  IF signature = <<>> THEN "false"
  ELSE LET digest == Sha256Prefix \o HmacHex(secret, payload)
       IN  timingSafeEqual(BufferFrom(signature), BufferFrom(digest))

\* isIssueOpenedEvent: payload.action === 'opened' && payload.issue !== undefined
isIssueOpenedEvent(payload) ==
  payload.action = "opened" /\ payload.issue # "absent"

----------------------------------------------------------------------------
(* lib/issue-parser.ts                                                     *)

\* parseIssue: the fields validation and the pipeline read.  Strings are kept
\* by their length.
parseIssue(payload) ==
  [issueNumber |-> payload.number,
   title |-> payload.title,
   repositoryName |-> payload.repositoryName,
   repositoryOwner |-> payload.repositoryOwner,
   cloneUrl |-> payload.cloneUrl]

\* A validation that does not look at the clone URL.
validateWithoutCloneUrl(issue) ==
  /\ issue.issueNumber > 0
  /\ issue.title > 0
  /\ issue.repositoryName > 0
  /\ issue.repositoryOwner > 0

validateParsedIssue(issue) ==
  /\ issue.issueNumber > 0
  /\ issue.title > 0
  /\ issue.repositoryName > 0
  /\ issue.repositoryOwner > 0
  /\ issue.cloneUrl > 0

----------------------------------------------------------------------------
(* lib/db.ts: InMemoryDB                                                   *)

saveIssue(db, issue) ==
  [n \in DOMAIN db \cup {issue.issueNumber} |->
     IF n = issue.issueNumber THEN issue ELSE db[n]]

\* { ...issue, ...updates, updatedAt: new Date() }
\* An update that stores the partial update in place of the record.
updateIssueReplacing(db, issueNumber, updates, t) ==
  IF issueNumber \in DOMAIN db
  THEN [db EXCEPT ![issueNumber] =
          [f \in DOMAIN updates \cup {"updatedAt"} |->
             IF f = "updatedAt" THEN t ELSE updates[f]]]
  ELSE db

\* An update that spreads the partial update over the refreshed timestamp.
updateIssueTimestampFirst(db, issueNumber, updates, t) ==
  IF issueNumber \in DOMAIN db
  THEN LET issue == db[issueNumber]
       IN  [db EXCEPT ![issueNumber] =
              [f \in DOMAIN issue \cup DOMAIN updates \cup {"updatedAt"} |->
                 IF f \in DOMAIN updates THEN updates[f]
                 ELSE IF f = "updatedAt" THEN t
                 ELSE issue[f]]]
  ELSE db

\* An update that creates the record when the store holds none.
updateIssueCreating(db, issueNumber, updates, t) ==
  LET issue == IF issueNumber \in DOMAIN db THEN db[issueNumber] ELSE <<>>
      merged == [f \in DOMAIN issue \cup DOMAIN updates \cup {"updatedAt"} |->
                   IF f = "updatedAt" THEN t
                   ELSE IF f \in DOMAIN updates THEN updates[f]
                   ELSE issue[f]]
  IN  [n \in DOMAIN db \cup {issueNumber} |-> IF n = issueNumber THEN merged ELSE db[n]]

updateIssue(db, issueNumber, updates, t) ==
  IF issueNumber \in DOMAIN db
  THEN LET issue == db[issueNumber]
           merged == [f \in DOMAIN issue \cup DOMAIN updates \cup {"updatedAt"} |->
                        IF f = "updatedAt" THEN t
                        ELSE IF f \in DOMAIN updates THEN updates[f]
                        ELSE issue[f]]
       IN  [db EXCEPT ![issueNumber] = merged]
  ELSE db

----------------------------------------------------------------------------
(* The requests delivered to the handler                                   *)

\* The value of process.env.WEBHOOK_SECRET when it is configured.
WebhookSecret == 1

\* A well-formed 'opened' event for issue n.
OpenedPayload(n) ==
  [parse |-> TRUE, action |-> "opened", issue |-> "object", number |-> n,
   title |-> 1, repositoryName |-> 1, repositoryOwner |-> 1, cloneUrl |-> 1]

\* Every 'opened' event whose issue carries a number in -1..NIssues and whose
\* title, repository name, owner login and clone URL are strings of length
\* 0..MaxLen.
OpenedPayloads ==
  {[parse |-> TRUE, action |-> "opened", issue |-> "object", number |-> n,
    title |-> t, repositoryName |-> rn, repositoryOwner |-> ro, cloneUrl |-> cu] :
     n \in -1..NIssues, t \in 0..MaxLen, rn \in 0..MaxLen, ro \in 0..MaxLen,
     cu \in 0..MaxLen}

\* The JSON bodies: 'opened' events (well-formed, and failing validation in
\* every combination), events of another action, 'opened' events whose issue
\* is null or absent, and a body that is not JSON.
Payloads ==
  OpenedPayloads
  \cup {[OpenedPayload(1) EXCEPT !.action = "closed"],
        [OpenedPayload(1) EXCEPT !.action = "closed", !.issue = "null"],
        [OpenedPayload(1) EXCEPT !.action = "created", !.issue = "absent"],
        [OpenedPayload(1) EXCEPT !.issue = "null"],
        [OpenedPayload(1) EXCEPT !.issue = "absent"],
        [OpenedPayload(1) EXCEPT !.parse = FALSE]}

\* The raw body of a payload, as the number the keyed digest is taken of.
RawBody(p) ==
  LET a == CASE p.action = "opened" -> 0 [] p.action = "closed" -> 1 [] OTHER -> 2
      i == CASE p.issue = "object" -> 0 [] p.issue = "null" -> 1 [] OTHER -> 2
      B == MaxLen + 1
  IN  (IF p.parse THEN 0 ELSE 1) + 2 * (a + 3 * (i + 3 * (p.title + B *
        (p.repositoryName + B * (p.repositoryOwner + B * (p.cloneUrl + B * (p.number + 1)))))))

\* The X-Hub-Signature-256 header GitHub computes for a payload.
ValidSignature(p) == Sha256Prefix \o HmacHex(WebhookSecret, RawBody(p))

\* Headers sent with payload p: the valid one, none, the valid header of
\* another body (same length) and a header of another length.
Signatures(p) ==
  {ValidSignature(p), <<>>,
   Sha256Prefix \o HmacHex(WebhookSecret, RawBody(p) + 1),
   Sha256Prefix}

\* A request whose signature is not the valid one is never parsed: such
\* requests are drawn for two payloads only.
Requests ==
  {[method |-> "GET", signature |-> <<>>, payload |-> OpenedPayload(1)]}
  \cup {[method |-> "POST", signature |-> ValidSignature(p), payload |-> p] : p \in Payloads}
  \cup {[method |-> "POST", signature |-> s, payload |-> p] :
          s \in Signatures(OpenedPayload(1)), p \in {OpenedPayload(1)}}
  \cup {[method |-> "POST", signature |-> s, payload |-> p] :
          s \in Signatures([OpenedPayload(1) EXCEPT !.action = "closed"]),
          p \in {[OpenedPayload(1) EXCEPT !.action = "closed"]}}

\* The authenticated, well-formed 'opened' events: those that start a pipeline.
OpenedRequests ==
  {[method |-> "POST", signature |-> ValidSignature(OpenedPayload(n)),
    payload |-> OpenedPayload(n)] : n \in IssueNumbers}

NoRequest == [method |-> "", signature |-> <<>>, payload |-> OpenedPayload(0)]
NoResponse == [status |-> 0, body |-> ""]

\* Environment ids: the provider hands out a fresh id at each create.
BeforeId(h) == 2 * h - 1
AfterId(h) == 2 * h

\* The handler's locals: the issue number of parsedIssue, the handle
\* createSandboxPair holds of its BEFORE sandbox, the ids of sandboxPair once
\* createSandboxPair has returned, the sandbox id handed to the call being
\* awaited, whether a remote call was issued, and the outcome of publication.
NoRun ==
  [issueNumber |-> 0, beforeResult |-> 0, before |-> 0, after |-> 0,
   target |-> 0, remote |-> FALSE, publication |-> "none"]

\* The parts of the state a specification leaves at rest.
NoDbOp == dbOp = <<>>
NoPair == cIn = <<>> /\ cPc = <<"idle">> /\ cCalls = <<>> /\ cOut = <<>>
NoAgent ==
  /\ aPc = "idle" /\ owner = "root" /\ aCmd = <<>> /\ aOut = <<>>
  /\ tree = "clean" /\ timer = "none"
NoPublish ==
  /\ pubOut = <<>> /\ pIn = <<>> /\ pPc = "idle" /\ pCalls = <<>>
  /\ pulls = {} /\ pRet = <<>>
NoSlug == sIn = <<>> /\ sOut = <<>>

----------------------------------------------------------------------------
(* pages/api/github-webhook.ts: handler                                    *)

Init ==
  /\ env \in [WEBHOOK_SECRET : BOOLEAN, DAYTONA_API_KEY : BOOLEAN,
              ANTHROPIC_API_KEY : BOOLEAN, GITHUB_TOKEN : BOOLEAN]
  /\ now = 0
  /\ issues = <<>>
  /\ sandboxes = {}
  /\ pc = [h \in Handlers |-> "idle"]
  /\ req = [h \in Handlers |-> NoRequest]
  /\ run = [h \in Handlers |-> NoRun]
  /\ resp = [h \in Handlers |-> NoResponse]
  /\ vIn = <<>>
  /\ vOut = ""
  /\ NoDbOp /\ NoPair /\ NoAgent /\ NoPublish /\ NoSlug

\* res.status(code).json(...) followed by return.
Respond(h, code, body) ==
  /\ pc' = [pc EXCEPT ![h] = "done"]
  /\ resp' = [resp EXCEPT ![h] = [status |-> code, body |-> body]]

\* Time passes.
Tick ==
  /\ now < MaxTime
  /\ now' = now + 1
  /\ UNCHANGED <<env, issues, sandboxes, pc, req, run, resp, unitVars>>

\* Lines 30-48: a request arrives; method and webhook-secret checks, then the
\* handler awaits the raw body.  Invocations are numbered in arrival order.
Receive(h, R) ==
  /\ pc[h] = "idle"
  /\ \A g \in Handlers : g < h => pc[g] # "idle"
  /\ \E r \in R :
       /\ req' = [req EXCEPT ![h] = r]
       /\ IF r.method # "POST"
          THEN Respond(h, 405, "Method not allowed")
          ELSE IF ~env.WEBHOOK_SECRET
          THEN Respond(h, 500, "Server configuration error")
          ELSE pc' = [pc EXCEPT ![h] = "rawBody"] /\ UNCHANGED resp
  /\ UNCHANGED <<env, now, issues, sandboxes, run, unitVars>>

\* Lines 79-89: the record the handler stores for an accepted event.
issueRecord(parsedIssue, t) ==
  [issueNumber |-> parsedIssue.issueNumber, status |-> "pending",
   createdAt |-> t, updatedAt |-> t]

\* A stand-in for the check of lines 103-107 that forgets the agent
\* credential.
MissingCredentialDaytonaOnly(e) ==
  IF ~e.DAYTONA_API_KEY THEN "Daytona API key not configured" ELSE ""

\* A stand-in for the check of lines 93-107 that forgets the provisioning
\* key.
MissingCredentialAnthropicOnly(e) ==
  IF ~e.ANTHROPIC_API_KEY THEN "Anthropic API key not configured" ELSE ""

\* Lines 93-107: the credentials the pipeline is started with; the error of
\* the first one that is missing, "" when both are set.
MissingCredential(e) ==
  IF ~e.DAYTONA_API_KEY THEN "Daytona API key not configured"
  ELSE IF ~e.ANTHROPIC_API_KEY THEN "Anthropic API key not configured"
  ELSE ""

\* Lines 49-116: the raw body has been read: signature check, parse, event
\* filter, validation, saveIssue, credential checks, the update to
\* 'processing', and the call of createSandboxPair, which issues the create
\* of the BEFORE sandbox.
Accept(h) ==
  /\ pc[h] = "rawBody"
  /\ LET r == req[h]
         isValid == verifyGitHubSignature(RawBody(r.payload), r.signature, WebhookSecret)
         parsedIssue == parseIssue(r.payload)
         saved == saveIssue(issues, issueRecord(parsedIssue, now))
     IN
     IF isValid = "throw"
     THEN Respond(h, 500, "Internal server error") /\ UNCHANGED <<issues, run>>
     ELSE IF isValid = "false"
     THEN Respond(h, 401, "Invalid signature") /\ UNCHANGED <<issues, run>>
     ELSE IF ~r.payload.parse
     THEN Respond(h, 500, "Internal server error") /\ UNCHANGED <<issues, run>>
     ELSE IF ~isIssueOpenedEvent(r.payload)
     THEN Respond(h, 200, "Event ignored") /\ UNCHANGED <<issues, run>>
     ELSE IF r.payload.issue = "null"
     THEN Respond(h, 500, "Internal server error") /\ UNCHANGED <<issues, run>>
     ELSE IF ~validateParsedIssue(parsedIssue)
     THEN Respond(h, 400, "Invalid issue data") /\ UNCHANGED <<issues, run>>
     ELSE IF MissingCredential(env) # ""
     THEN /\ issues' = updateIssue(saved, parsedIssue.issueNumber, [status |-> "failed"], now)
          /\ run' = [run EXCEPT ![h].issueNumber = parsedIssue.issueNumber]
          /\ Respond(h, 500, MissingCredential(env))
     ELSE /\ issues' = updateIssue(saved, parsedIssue.issueNumber, [status |-> "processing"], now)
          /\ run' = [run EXCEPT ![h].issueNumber = parsedIssue.issueNumber,
                                ![h].remote = TRUE]
          /\ pc' = [pc EXCEPT ![h] = "createBefore"]
          /\ UNCHANGED resp
  /\ UNCHANGED <<env, now, sandboxes, req, unitVars>>

\* A catch block that marks every stored run failed.
CatchFailingAll(h) ==
  /\ Respond(h, 500, "Internal server error")
  /\ issues' = [n \in DOMAIN issues |-> [issues[n] EXCEPT !.status = "failed"]]
  /\ UNCHANGED run

\* Lines 226-237: the catch block of the handler.  It answers 500 and leaves
\* the run store as it is.
Catch(h) ==
  /\ Respond(h, 500, "Internal server error")
  /\ UNCHANGED <<issues, run>>

\* A handler that runs the agent in the BEFORE sandbox.
StageTargetAgentInBefore(stage, before, after) ==
  CASE stage \in {"setupBefore", "previewBefore", "agent"} -> before
    [] stage \in {"setupAfter", "previewAfter", "publish"} -> after
    [] OTHER -> 0

\* A handler that addresses every call to the sandboxes of the first
\* invocation.
StageTargetOfFirstRun(stage, before, after) ==
  CASE stage \in {"setupBefore", "previewBefore"} -> BeforeId(1)
    [] stage \in {"agent", "setupAfter", "previewAfter", "publish"} -> AfterId(1)
    [] OTHER -> 0

\* Lines 123-158: the sandbox id the handler hands to the call of a stage:
\* sandboxPair.before.id to setupAndRunApp (123) and getPreviewUrl (142),
\* sandboxPair.after.id to runClaudeCodeInSandbox (128), setupAndRunApp
\* (138), getPreviewUrl (143) and createBranchAndPR (158).
StageTarget(stage, before, after) ==
  CASE stage \in {"setupBefore", "previewBefore"} -> before
    [] stage \in {"agent", "setupAfter", "previewAfter", "publish"} -> after
    [] OTHER -> 0

\* A remote call of a stage has returned: the handler goes on to the next
\* stage, or the call raised (an error or a timeout) and the catch block runs.
StageReturns(h, stage, next) ==
  /\ pc[h] = stage
  /\ \/ /\ pc' = [pc EXCEPT ![h] = next]
        /\ run' = [run EXCEPT ![h].target = StageTarget(next, run[h].before, run[h].after)]
        /\ UNCHANGED <<issues, resp>>
     \/ Catch(h)
  /\ UNCHANGED <<env, now, sandboxes, req, unitVars>>

\* createSandboxPair, lines 136-149 of lib/daytona.ts: createAndSetupSandbox
\* for the BEFORE sandbox returns, or it raises before the sandbox exists
\* (create), or it raises once the sandbox exists (clone, preview link).
CreateBefore(h) ==
  /\ pc[h] = "createBefore"
  /\ \/ /\ sandboxes' = sandboxes \cup {BeforeId(h)}
        /\ run' = [run EXCEPT ![h].beforeResult = BeforeId(h)]
        /\ pc' = [pc EXCEPT ![h] = "createAfter"]
        /\ UNCHANGED <<issues, resp>>
     \/ /\ UNCHANGED sandboxes
        /\ Catch(h)
     \/ /\ sandboxes' = sandboxes \cup {BeforeId(h)}
        /\ Catch(h)
  /\ UNCHANGED <<env, now, req, unitVars>>

\* createSandboxPair, lines 151-173 of lib/daytona.ts: the same for the AFTER
\* sandbox; on success the pair is returned to the handler (line 116).
CreateAfter(h) ==
  /\ pc[h] = "createAfter"
  /\ \/ /\ sandboxes' = sandboxes \cup {AfterId(h)}
        /\ run' = [run EXCEPT ![h].before = run[h].beforeResult,
                              ![h].after = AfterId(h),
                              ![h].target = StageTarget("setupBefore", run[h].beforeResult,
                                                        AfterId(h))]
        /\ pc' = [pc EXCEPT ![h] = "setupBefore"]
        /\ UNCHANGED <<issues, resp>>
     \/ /\ UNCHANGED sandboxes
        /\ Catch(h)
     \/ /\ sandboxes' = sandboxes \cup {AfterId(h)}
        /\ Catch(h)
  /\ UNCHANGED <<env, now, req, unitVars>>

\* A handler that goes from the BEFORE setup straight to the AFTER setup.
SetupBeforeSkippingAgent(h) == StageReturns(h, "setupBefore", "setupAfter")

\* Line 123: setupAndRunApp in the BEFORE sandbox.
SetupBefore(h) == StageReturns(h, "setupBefore", "agent")

\* Lines 127-132: runClaudeCodeInSandbox in the AFTER sandbox; it returns a
\* parsed or a degraded result, or raises (error, timeout).
RunAgent(h) == StageReturns(h, "agent", "setupAfter")

\* Line 138: setupAndRunApp in the AFTER sandbox.
SetupAfter(h) == StageReturns(h, "setupAfter", "previewBefore")

\* Line 142: getPreviewUrl of the BEFORE sandbox.
PreviewBefore(h) == StageReturns(h, "previewBefore", "previewAfter")

\* A stand-in for lines 200-205 that marks the run failed when publication
\* raised.
CompleteFailedPublication(h, publication) ==
  /\ issues' = updateIssue(issues, run[h].issueNumber,
                 [beforeWorkspaceId |-> run[h].before,
                  afterWorkspaceId |-> run[h].after,
                  status |-> IF publication \in {"created", "skipped"}
                             THEN "completed" ELSE "failed"], now)
  /\ run' = [run EXCEPT ![h].publication = publication]
  /\ pc' = [pc EXCEPT ![h] = "done"]
  /\ resp' = [resp EXCEPT ![h] = [status |-> 200, body |-> "Issue processed successfully"]]

\* A stand-in for lines 200-205 that writes the status alone.
CompleteWithoutIds(h, publication) ==
  /\ issues' = updateIssue(issues, run[h].issueNumber, [status |-> "completed"], now)
  /\ run' = [run EXCEPT ![h].publication = publication]
  /\ Respond(h, 200, "Issue processed successfully")

\* Lines 200-225: the handler records the sandbox ids with status
\* 'completed' and answers 200.
Complete(h, publication) ==
  /\ issues' = updateIssue(issues, run[h].issueNumber,
                 [beforeWorkspaceId |-> run[h].before,
                  afterWorkspaceId |-> run[h].after,
                  status |-> "completed"], now)
  /\ run' = [run EXCEPT ![h].publication = publication]
  /\ Respond(h, 200, "Issue processed successfully")

\* Lines 143-155: getPreviewUrl of the AFTER sandbox returns; without a
\* GITHUB_TOKEN publication is skipped, otherwise createBranchAndPR is called.
PreviewAfter(h) ==
  /\ pc[h] = "previewAfter"
  /\ \/ IF env.GITHUB_TOKEN
        THEN /\ pc' = [pc EXCEPT ![h] = "publish"]
             /\ run' = [run EXCEPT ![h].target = StageTarget("publish", run[h].before,
                                                             run[h].after)]
             /\ UNCHANGED <<issues, resp>>
        ELSE Complete(h, "skipped")
     \/ Catch(h)
  /\ UNCHANGED <<env, now, sandboxes, req, unitVars>>

\* The steps of createBranchAndPR whose failure the handler sees as a raised
\* error: the push (lines 467-487), the pull-request script (lines 593-613),
\* or an earlier step.
PublishFailures == {"push", "pullRequest", "earlier"}

\* Lines 156-177: createBranchAndPR returns a pull request, or raises and the
\* inner catch swallows the error; either way the handler goes on to line 179.
Publish(h) ==
  /\ pc[h] = "publish"
  /\ \E publication \in {"created"} \cup PublishFailures : Complete(h, publication)
  /\ UNCHANGED <<env, now, sandboxes, req, unitVars>>

Next ==
  \/ \E h \in Handlers :
       \/ Receive(h, OpenedRequests)
       \/ Accept(h)
       \/ CreateBefore(h)
       \/ CreateAfter(h)
       \/ SetupBefore(h)
       \/ RunAgent(h)
       \/ SetupAfter(h)
       \/ PreviewBefore(h)
       \/ PreviewAfter(h)
       \/ Publish(h)

\* Concurrent deliveries of authenticated 'opened' events, within one reading
\* of the clock.
Spec == Init /\ [][Next]_vars

\* Two concurrent deliveries under the scheduling of the event loop: a
\* callback that is ready is run, and every remote call returns or raises
\* (the timeouts of the provider's client).
NextTwo ==
  \/ \E h \in {1, 2} :
       \/ Receive(h, OpenedRequests)
       \/ Accept(h)
       \/ CreateBefore(h)
       \/ CreateAfter(h)
       \/ SetupBefore(h)
       \/ RunAgent(h)
       \/ SetupAfter(h)
       \/ PreviewBefore(h)
       \/ PreviewAfter(h)
       \/ Publish(h)

SpecTwo == Init /\ [][NextTwo]_vars /\ WF_vars(NextTwo)

\* The same while time passes.
NextClock == Tick \/ Next

SpecClock == Init /\ [][NextClock]_vars

\* One delivery of any request.
NextOne ==
  \/ Tick
  \/ Receive(1, Requests)
  \/ Accept(1)
  \/ CreateBefore(1)
  \/ CreateAfter(1)
  \/ SetupBefore(1)
  \/ RunAgent(1)
  \/ SetupAfter(1)
  \/ PreviewBefore(1)
  \/ PreviewAfter(1)
  \/ Publish(1)

SpecOne == Init /\ [][NextOne]_vars

----------------------------------------------------------------------------
(* The verifier on its own: verifyGitHubSignature applied to valid headers, *)
(* to a missing header, and to single-bit mutations of header and body      *)

\* n with bit b flipped.
FlipBit(n, b) == IF (n \div (2 ^ b)) % 2 = 1 THEN n - 2 ^ b ELSE n + 2 ^ b

\* The bits of one byte of the body, and of one character of the header as it
\* arrives on the wire.
ByteBits == 0..7

\* The inputs: a body, a secret, and a header that is the valid one for the
\* body ("valid"), absent ("missing"), the valid one with one bit of one
\* character flipped ("signatureMutated"), or the valid one of the body before
\* one of its bits was flipped ("bodyMutated").
VerifyInputs ==
  LET Valid(secret, body) == Sha256Prefix \o HmacHex(secret, body)
  IN  UNION {
        {[kind |-> "valid", payload |-> body, secret |-> secret,
          signature |-> Valid(secret, body)],
         [kind |-> "missing", payload |-> body, secret |-> secret,
          signature |-> <<>>]}
        \cup {[kind |-> "signatureMutated", payload |-> body, secret |-> secret,
               signature |-> [Valid(secret, body) EXCEPT
                                ![i] = FlipBit(Valid(secret, body)[i], b)]] :
                i \in 1..Len(Valid(secret, body)), b \in ByteBits}
        \cup {[kind |-> "bodyMutated", payload |-> FlipBit(body, b), secret |-> secret,
               signature |-> Valid(secret, body)] : b \in ByteBits}
        : secret \in 1..NSecrets, body \in 0..MaxBody}

InitVerify ==
  /\ env = [WEBHOOK_SECRET |-> TRUE, DAYTONA_API_KEY |-> TRUE,
            ANTHROPIC_API_KEY |-> TRUE, GITHUB_TOKEN |-> TRUE]
  /\ now = 0
  /\ issues = <<>>
  /\ sandboxes = {}
  /\ pc = [h \in Handlers |-> "idle"]
  /\ req = [h \in Handlers |-> NoRequest]
  /\ run = [h \in Handlers |-> NoRun]
  /\ resp = [h \in Handlers |-> NoResponse]
  /\ vIn \in VerifyInputs
  /\ vOut = ""
  /\ NoDbOp /\ NoPair /\ NoAgent /\ NoPublish /\ NoSlug

Verify ==
  /\ vOut = ""
  /\ vOut' = verifyGitHubSignature(vIn.payload, vIn.signature, vIn.secret)
  /\ UNCHANGED <<env, now, issues, sandboxes, pc, req, run, resp, vIn,
                 dbVars, pairVars, agentVars, publishVars, slugVars>>

SpecVerify == InitVerify /\ [][Verify]_vars

----------------------------------------------------------------------------
(* The run store on its own: updateIssue applied once to a store that      *)
(* holds one record                                                        *)

Statuses == {"pending", "processing", "completed", "failed"}

\* The records the store can hold for issue n at time t: created and last
\* updated in that order, with both sandbox ids or none.
DbRecords(n, t) ==
  {[issueNumber |-> n, status |-> st, createdAt |-> c, updatedAt |-> u] :
     st \in Statuses, c \in 0..t, u \in 0..t}
  \cup {[issueNumber |-> n, status |-> st, createdAt |-> c, updatedAt |-> u,
         beforeWorkspaceId |-> BeforeId(1), afterWorkspaceId |-> AfterId(1)] :
          st \in Statuses, c \in 0..t, u \in 0..t}

\* The fields a Partial<InMemoryIssue> may name, and a value for each.
DbFields ==
  {"status", "beforeWorkspaceId", "afterWorkspaceId", "createdAt", "updatedAt"}

DbValues ==
  [status : Statuses, beforeWorkspaceId : {BeforeId(2)},
   afterWorkspaceId : {AfterId(2)}, createdAt : 0..MaxTime, updatedAt : 0..MaxTime]

InitDb ==
  /\ env = [WEBHOOK_SECRET |-> TRUE, DAYTONA_API_KEY |-> TRUE,
            ANTHROPIC_API_KEY |-> TRUE, GITHUB_TOKEN |-> TRUE]
  /\ now \in 0..MaxTime
  /\ \E n \in IssueNumbers :
       \E r \in {x \in DbRecords(n, now) : x.createdAt <= x.updatedAt} :
         issues = saveIssue(<<>>, r)
  /\ sandboxes = {}
  /\ pc = [h \in Handlers |-> "idle"]
  /\ req = [h \in Handlers |-> NoRequest]
  /\ run = [h \in Handlers |-> NoRun]
  /\ resp = [h \in Handlers |-> NoResponse]
  /\ vIn = <<>>
  /\ vOut = ""
  /\ NoDbOp /\ NoPair /\ NoAgent /\ NoPublish /\ NoSlug

\* db.updateIssue(n, updates), called once at the time now.
DbUpdate ==
  /\ dbOp = <<>>
  /\ \E n \in IssueNumbers, F \in SUBSET DbFields, v \in DbValues :
       LET updates == [f \in F |-> v[f]]
       IN  /\ issues' = updateIssue(issues, n, updates, now)
           /\ dbOp' = [issueNumber |-> n, updates |-> updates,
                       before |-> issues, time |-> now]
  /\ UNCHANGED <<env, now, sandboxes, pc, req, run, resp,
                 verifyVars, pairVars, agentVars, publishVars, slugVars>>

SpecDb == InitDb /\ [][DbUpdate]_vars

----------------------------------------------------------------------------
(* lib/daytona-client.ts: createSandboxPair, await by await                *)

\* Clone URLs, as the pieces they are written with.
CloneUrls ==
  {<<"https://", "github.com", "/", "o/r.git">>,
   <<"https://", "gitlab.com", "/", "o/r.git">>,
   <<"https://", "github.com", ".evil.net", "/", "o/r.git">>,
   <<"https://", "gitlab.com", "/", "github.com", "/", "r.git">>}

\* String.prototype.includes: the piece occurs somewhere in the URL.
Includes(url, piece) == \E i \in 1..Len(url) : url[i] = piece

\* The host of a URL: what stands between the scheme and the first "/".
UrlHost(url) ==
  LET slash == CHOOSE i \in 2..Len(url) :
                 url[i] = "/" /\ \A j \in 2..(i - 1) : url[j] # "/"
  IN  SubSeq(url, 2, slash - 1)

\* Lines 76-94: the clone is given the token when GITHUB_TOKEN is set and the
\* clone URL includes 'github.com'.
CloneWithToken(githubToken, cloneUrl) ==
  githubToken /\ Includes(cloneUrl, "github.com")

\* The credential argument of createAndSetupSandbox that hands the key to
\* both sandboxes.
KeyArgumentForBoth(role, anthropicApiKey) == anthropicApiKey

\* Lines 147 and 162: the anthropicApiKey argument createSandboxPair passes to
\* createAndSetupSandbox (0 is undefined).
KeyArgument(role, anthropicApiKey) ==
  IF role = "after" THEN anthropicApiKey ELSE 0

\* Lines 46-54: createOptions.envVars.ANTHROPIC_API_KEY (0 when envVars is
\* not set).
CreateEnvKey(useClaudeSnapshot, anthropicApiKey) ==
  IF useClaudeSnapshot /\ anthropicApiKey # 0 THEN anthropicApiKey ELSE 0

\* The awaits of createAndSetupSandbox, in order.
SetupSteps == <<"create", "user", "workDir", "clone", "preview">>

StepIndex(step) == CHOOSE i \in 1..Len(SetupSteps) : SetupSteps[i] = step

\* Where createSandboxPair continues when the await (role, step) returns.
OnReturn(role, step) ==
  IF StepIndex(step) < Len(SetupSteps)
  THEN <<role, SetupSteps[StepIndex(step) + 1]>>
  ELSE IF role = "before" THEN <<"after", "create">> ELSE <<"returned">>

\* A pair that goes on to the AFTER sandbox when the BEFORE sandbox failed.
OnThrowTryAfter(role, step) ==
  IF step = "user" THEN OnReturn(role, step)
  ELSE IF role = "before" THEN <<"after", "create">> ELSE <<"threw">>

\* Where createSandboxPair continues when the await (role, step) raises: the
\* user check is inside a try/catch that logs (lines 61-67), everything else
\* reaches the catch of createSandboxPair, which rethrows (lines 170-173).
OnThrow(role, step) ==
  IF step = "user" THEN OnReturn(role, step) ELSE <<"threw">>

\* The id the provider gives the sandbox of a role.
PairId(role) == IF role = "before" THEN BeforeId(1) ELSE AfterId(1)

\* The call issued at the await (role, step): the key in the create options
\* and whether the clone carries the token.
PairCall(role, step) ==
  [role |-> role, op |-> step,
   key |-> IF step = "create"
           THEN CreateEnvKey(TRUE, KeyArgument(role, cIn.anthropicApiKey)) ELSE 0,
   token |-> step = "clone" /\ CloneWithToken(cIn.githubToken, cIn.cloneUrl)]

InitPair ==
  /\ env = [WEBHOOK_SECRET |-> TRUE, DAYTONA_API_KEY |-> TRUE,
            ANTHROPIC_API_KEY |-> TRUE, GITHUB_TOKEN |-> TRUE]
  /\ now = 0
  /\ issues = <<>>
  /\ sandboxes = {}
  /\ pc = [h \in Handlers |-> "idle"]
  /\ req = [h \in Handlers |-> NoRequest]
  /\ run = [h \in Handlers |-> NoRun]
  /\ resp = [h \in Handlers |-> NoResponse]
  /\ vIn = <<>>
  /\ vOut = ""
  /\ NoDbOp /\ NoAgent /\ NoPublish /\ NoSlug
  /\ cIn \in [cloneUrl : CloneUrls, githubToken : BOOLEAN, anthropicApiKey : 1..NKeys]
  /\ cPc = <<"before", "create">>
  /\ cCalls = <<>>
  /\ cOut = <<>>

\* One await of createSandboxPair: the call is issued, and returns or raises.
PairAwait ==
  /\ Len(cPc) = 2
  /\ LET role == cPc[1]
         step == cPc[2]
     IN  /\ cCalls' = Append(cCalls, PairCall(role, step))
         /\ \E ok \in BOOLEAN :
              /\ cPc' = IF ok THEN OnReturn(role, step) ELSE OnThrow(role, step)
              /\ sandboxes' = IF ok /\ step = "create"
                              THEN sandboxes \cup {PairId(role)} ELSE sandboxes
              /\ cOut' = CASE cPc' = <<"returned">> ->
                                 [threw |-> FALSE, at |-> <<>>,
                                  handles |-> {BeforeId(1), AfterId(1)}]
                            [] cPc' = <<"threw">> ->
                                 [threw |-> TRUE, at |-> cPc, handles |-> {}]
                            [] OTHER -> cOut
  /\ UNCHANGED <<env, now, issues, pc, req, run, resp, cIn,
                 verifyVars, dbVars, agentVars, publishVars, slugVars>>

SpecPair == InitPair /\ [][PairAwait]_vars

----------------------------------------------------------------------------
(* One run with runClaudeCodeInSandbox await by await, followed by the     *)
(* change detection of createBranchAndPR                                   *)

\* The pieces the output of the agent command is written with: braces, a
\* member "result":"..." (s), a member "result":5 (n) and log text (t).
OutputPieces == {"{", "}", "s", "n", "t"}

AgentOutputs == UNION {[1..k -> OutputPieces] : k \in 0..MaxOut}

\* outputToParse.match(/\{[\s\S]*\}/): from the first "{" to the last "}",
\* <<>> when there is no match.
JsonMatch(output) ==
  LET opens == {i \in 1..Len(output) : output[i] = "{"}
      closes == {i \in 1..Len(output) : output[i] = "}"}
  IN  IF opens = {} THEN <<>>
      ELSE LET first == CHOOSE i \in opens : \A j \in opens : i <= j
               after == {i \in closes : i > first}
           IN  IF after = {} THEN <<>>
               ELSE SubSeq(output, first, CHOOSE i \in after : \A j \in after : j <= i)

\* JSON.parse accepts the matched text: an object with no member or with
\* one member.
JsonValid(match) ==
  \/ match = <<"{", "}">>
  \/ Len(match) = 3 /\ match[1] = "{" /\ match[2] \in {"s", "n"} /\ match[3] = "}"

\* The type of the member 'result' of the parsed object.
ResultType(match) ==
  IF Len(match) = 3 THEN (IF match[2] = "s" THEN "string" ELSE "number") ELSE "absent"

\* A parser that raises when no JSON object can be parsed.
ParseOrRaise(output, exitCode) ==
  IF JsonMatch(output) # <<>> /\ JsonValid(JsonMatch(output))
  THEN [kind |-> "parsed", result |-> ResultType(JsonMatch(output)),
        warning |-> FALSE, exitCode |-> 0]
  ELSE [kind |-> "raise", result |-> output, warning |-> FALSE, exitCode |-> exitCode]

\* Lines 342-364: the parsed object, or the raw output with a warning and
\* the exit code when there is no match or JSON.parse raises.
ParseAgentOutput(output, exitCode) ==
  IF JsonMatch(output) # <<>> /\ JsonValid(JsonMatch(output))
  THEN [kind |-> "parsed", result |-> ResultType(JsonMatch(output)),
        warning |-> FALSE, exitCode |-> 0]
  ELSE [kind |-> "degraded", result |-> output, warning |-> TRUE, exitCode |-> exitCode]

\* Lines 437-438: hasChanges, from the output of 'git status --short'.
HasChanges(workingTree) == workingTree = "dirty"

InitRun ==
  /\ env \in {e \in [WEBHOOK_SECRET : BOOLEAN, DAYTONA_API_KEY : BOOLEAN,
                     ANTHROPIC_API_KEY : BOOLEAN, GITHUB_TOKEN : BOOLEAN] :
                e.WEBHOOK_SECRET /\ e.DAYTONA_API_KEY /\ e.ANTHROPIC_API_KEY}
  /\ now = 0
  /\ issues = <<>>
  /\ sandboxes = {}
  /\ pc = [h \in Handlers |-> "idle"]
  /\ req = [h \in Handlers |-> NoRequest]
  /\ run = [h \in Handlers |-> NoRun]
  /\ resp = [h \in Handlers |-> NoResponse]
  /\ vIn = <<>>
  /\ vOut = ""
  /\ NoDbOp /\ NoPair /\ NoAgent /\ NoPublish /\ NoSlug

\* The parts of the state runClaudeCodeInSandbox does not touch while the
\* handler awaits it.
AgentFrame ==
  UNCHANGED <<env, now, issues, sandboxes, pc, req, run, resp,
              verifyVars, dbVars, pairVars, publishVars, slugVars>>

\* runClaudeCodeInSandbox raises: the handler's catch block runs.
AgentRaises ==
  /\ aPc' = "threw"
  /\ Catch(1)
  /\ UNCHANGED <<env, now, sandboxes, req, verifyVars, dbVars, pairVars, publishVars, slugVars>>

\* Lines 127-132: the handler calls runClaudeCodeInSandbox.
AgentCall ==
  /\ pc[1] = "agent" /\ aPc = "idle"
  /\ aPc' = "get"
  /\ UNCHANGED <<owner, aCmd, aOut, tree, timer>>
  /\ AgentFrame

\* Lines 190-191: daytona.get and getWorkDir; neither is inside a try.
AgentLookup ==
  /\ aPc \in {"get", "workDir"}
  /\ UNCHANGED <<owner, aCmd, aOut, tree, timer>>
  /\ \/ aPc' = (IF aPc = "get" THEN "workDir" ELSE "chownClaude") /\ AgentFrame
     \/ AgentRaises

\* Lines 216-223: chown to claude; when the call raises the runner logs and
\* goes on, and the command may or may not have run.
AgentChownClaude ==
  /\ aPc = "chownClaude"
  /\ \/ owner' = "claude"
     \/ UNCHANGED owner
  /\ aPc' = "exec"
  /\ UNCHANGED <<aCmd, aOut, tree, timer>>
  /\ AgentFrame

\* A runner that raises when the agent command exits non-zero.
AfterExecCheckingExit(output, exitCode) ==
  IF exitCode # 0 THEN "threw"
  ELSE IF output = <<>> THEN "which"
  ELSE "chownRoot"

\* Where the runner continues once the agent command has returned: the two
\* debugging commands when there is no output (lines 288-318), then the
\* parse, then the revert of ownership.
AfterExec(output, exitCode) ==
  IF output = <<>> THEN "which"
  ELSE IF ParseAgentOutput(output, exitCode).kind = "raise" THEN "threw"
  ELSE "chownRoot"

\* Lines 248-340: the poll interval is set and the agent command is run.  The
\* command returns its output and exit code (the interval is cleared), or the
\* call raises, on an error or on the 600000 ms timeout (the catch block logs
\* and rethrows).  Either way the agent may have changed files.
AgentExec ==
  /\ aPc = "exec"
  /\ tree' \in {"clean", "dirty"}
  /\ UNCHANGED <<owner, aOut>>
  /\ \/ \E output \in AgentOutputs, exitCode \in {0, 1} :
          /\ aCmd' = [result |-> output, exitCode |-> exitCode]
          /\ timer' = "cleared"
          /\ IF AfterExec(output, exitCode) = "threw"
             THEN AgentRaises
             ELSE aPc' = AfterExec(output, exitCode) /\ AgentFrame
     \/ /\ timer' = "running"
        /\ UNCHANGED aCmd
        /\ AgentRaises

\* Lines 298-317: 'which claude' and the directory test, each in its own
\* try/catch.
AgentDebug ==
  /\ aPc \in {"which", "dirCheck"}
  /\ UNCHANGED <<owner, aCmd, aOut, tree, timer>>
  /\ IF aPc = "which" THEN aPc' = "dirCheck" /\ AgentFrame
     ELSE IF ParseAgentOutput(aCmd.result, aCmd.exitCode).kind = "raise"
          THEN AgentRaises
          ELSE aPc' = "chownRoot" /\ AgentFrame

\* Lines 366-380 and line 134 of the handler: chown back to root (when the
\* call raises the runner logs and goes on), the runner returns its result
\* and the handler logs claudeResult.result?.substring(0, 200), which raises
\* when 'result' is neither absent nor a string.
AgentReturn ==
  /\ aPc = "chownRoot"
  /\ \/ owner' = "root"
     \/ UNCHANGED owner
  /\ aPc' = "returned"
  /\ aOut' = ParseAgentOutput(aCmd.result, aCmd.exitCode)
  /\ UNCHANGED <<aCmd, tree, timer>>
  /\ IF aOut'.kind = "parsed" /\ aOut'.result = "number"
     THEN Catch(1)
     ELSE /\ pc' = [pc EXCEPT ![1] = "setupAfter"]
          /\ run' = [run EXCEPT ![1].target = StageTarget("setupAfter", run[1].before,
                                                          run[1].after)]
          /\ UNCHANGED <<issues, resp>>
  /\ UNCHANGED <<env, now, sandboxes, req, verifyVars, dbVars, pairVars, publishVars, slugVars>>

\* createBranchAndPR: the status snapshot decides whether there is a commit
\* (lines 437-464); it returns a pull request or raises, and the handler
\* completes the run either way.
PublishTree ==
  /\ pc[1] = "publish"
  /\ \/ /\ pubOut' = [hasChanges |-> HasChanges(tree), committed |-> HasChanges(tree)]
        /\ Complete(1, "created")
     \/ /\ \E publication \in PublishFailures : Complete(1, publication)
        /\ UNCHANGED pubOut
  /\ UNCHANGED <<env, now, sandboxes, req, verifyVars, dbVars, pairVars, agentVars,
                 pIn, pPc, pCalls, pulls, pRet, slugVars>>

NextRun ==
  \/ Receive(1, {r \in OpenedRequests : r.payload.number = 1})
  \/ Accept(1)
  \/ CreateBefore(1)
  \/ CreateAfter(1)
  \/ SetupBefore(1)
  \/ AgentCall
  \/ AgentLookup
  \/ AgentChownClaude
  \/ AgentExec
  \/ AgentDebug
  \/ AgentReturn
  \/ SetupAfter(1)
  \/ PreviewBefore(1)
  \/ PreviewAfter(1)
  \/ PublishTree

SpecRun == InitRun /\ [][NextRun]_vars

----------------------------------------------------------------------------
(* createBranchAndPR, lines 409-414: the branch name                       *)

\* substring(0, 50).
SlugMax == 50

\* The characters titles are written with: a lowercase letter, an uppercase
\* letter, a digit, a hyphen, a space and a letter outside ASCII.
TitleChars == {"a", "Z", "7", "-", " ", "é"}

\* [a-z0-9].
LowerAlnum ==
  {"a", "b", "c", "d", "e", "f", "g", "h", "i", "j", "k", "l", "m", "n", "o",
   "p", "q", "r", "s", "t", "u", "v", "w", "x", "y", "z",
   "0", "1", "2", "3", "4", "5", "6", "7", "8", "9"}

RECURSIVE Repeat(_, _)
Repeat(c, n) == IF n = 0 THEN <<>> ELSE <<c>> \o Repeat(c, n - 1)

\* Titles: 0, or about SlugMax, letters followed by up to MaxTitle characters.
Titles ==
  {Repeat("a", k) \o w :
     k \in {0, SlugMax - 2, SlugMax - 1, SlugMax},
     w \in UNION {[1..n -> TitleChars] : n \in 0..MaxTitle}}

\* String.prototype.toLowerCase, character by character.
ToLowerCase(c) == IF c = "Z" THEN "z" ELSE c

RECURSIVE DropWhile(_, _)
DropWhile(s, C) ==
  IF s # <<>> /\ Head(s) \in C THEN DropWhile(Tail(s), C) ELSE s

\* replace(/[^a-z0-9]+/g, '-'): every run of other characters becomes one
\* hyphen.
RECURSIVE ReplaceRuns(_)
ReplaceRuns(s) ==
  IF s = <<>> THEN <<>>
  ELSE IF Head(s) \in LowerAlnum THEN <<Head(s)>> \o ReplaceRuns(Tail(s))
  ELSE <<"-">> \o ReplaceRuns(DropWhile(Tail(s), TitleChars \ LowerAlnum))

RECURSIVE DropLast(_, _)
DropLast(s, C) ==
  IF s # <<>> /\ s[Len(s)] \in C THEN DropLast(SubSeq(s, 1, Len(s) - 1), C) ELSE s

\* replace(/^-+|-+$/g, ''): leading and trailing hyphens are removed.
TrimHyphens(s) == DropLast(DropWhile(s, {"-"}), {"-"})

\* substring(0, n).
Substring(s, n) == SubSeq(s, 1, IF Len(s) < n THEN Len(s) ELSE n)

\* A slug that is not cut to SlugMax characters.
SlugUncut(title) ==
  TrimHyphens(ReplaceRuns([i \in 1..Len(title) |-> ToLowerCase(title[i])]))

\* Lines 410-413: lowercase, replace, trim, cut.
Slug(title) ==
  Substring(TrimHyphens(ReplaceRuns([i \in 1..Len(title) |-> ToLowerCase(title[i])])),
            SlugMax)

\* Line 409: `autofix/issue-${issueNumber}-${slug}`.
BranchName(issueNumber, title) ==
  [prefix |-> "autofix/issue-", number |-> issueNumber, hyphen |-> "-",
   slug |-> Slug(title)]

InitSlug ==
  /\ env = [WEBHOOK_SECRET |-> TRUE, DAYTONA_API_KEY |-> TRUE,
            ANTHROPIC_API_KEY |-> TRUE, GITHUB_TOKEN |-> TRUE]
  /\ now = 0
  /\ issues = <<>>
  /\ sandboxes = {}
  /\ pc = [h \in Handlers |-> "idle"]
  /\ req = [h \in Handlers |-> NoRequest]
  /\ run = [h \in Handlers |-> NoRun]
  /\ resp = [h \in Handlers |-> NoResponse]
  /\ vIn = <<>>
  /\ vOut = ""
  /\ NoDbOp /\ NoPair /\ NoAgent /\ NoPublish
  /\ sIn \in [issueNumber : IssueNumbers, title : Titles]
  /\ sOut = <<>>

\* The branch name is derived.
DeriveBranchName ==
  /\ sOut = <<>>
  /\ sOut' = BranchName(sIn.issueNumber, sIn.title)
  /\ UNCHANGED <<env, now, issues, sandboxes, pc, req, run, resp, sIn,
                 verifyVars, dbVars, pairVars, agentVars, publishVars>>

SpecSlug == InitSlug /\ [][DeriveBranchName]_vars

----------------------------------------------------------------------------
(* createBranchAndPR, await by await                                       *)

\* The preview link of a sandbox: the one createAndSetupSandbox obtained
\* ("created") or the one the handler obtained once both apps were started
\* ("refreshed").
Preview(role, generation) ==
  [url |-> <<role, generation, "url">>, token |-> <<role, generation, "token">>]

\* A handler call that hands the preview links to the wrong sides.
PublishArgumentsSwapped(issueNumber, title, afterId, beforePreview, afterPreview) ==
  [sandboxId |-> afterId, issueNumber |-> issueNumber, issueTitle |-> title,
   defaultBranch |-> "main",
   beforePreviewUrl |-> afterPreview.url, afterPreviewUrl |-> beforePreview.url,
   beforePreviewToken |-> afterPreview.token, afterPreviewToken |-> beforePreview.token]

\* Lines 158-171 of the handler: the arguments of createBranchAndPR, from
\* parsedIssue, sandboxPair and the two refreshed preview links.
PublishArguments(issueNumber, title, afterId, beforePreview, afterPreview) ==
  [sandboxId |-> afterId, issueNumber |-> issueNumber, issueTitle |-> title,
   defaultBranch |-> "main",
   beforePreviewUrl |-> beforePreview.url, afterPreviewUrl |-> afterPreview.url,
   beforePreviewToken |-> beforePreview.token, afterPreviewToken |-> afterPreview.token]

\* Lines 494-502: the three texts changesSummary can hold besides the output
\* of git diff --stat.
SeeDiff == "Changes made (see diff)"
NoDiffSummary == "Changes made (unable to generate diff summary)"
NoChangesNote ==
  "No code changes detected. This PR was created to track the issue resolution process."

\* The remote calls of createBranchAndPR that run a shell command, and those
\* that are calls of the SDK.
PublishCommands ==
  {"config", "checkout", "fetch", "checkout2", "status", "branch", "add",
   "commit", "setUrl", "push", "diff", "script"}
PublishSdkCalls == {"get", "workDir", "upload"}

\* How a remote call ends: it returns (a command with exit code 0 or with
\* another exit code) or it raises.
Outcomes(op) == IF op \in PublishCommands THEN {"ok", "exit", "raise"} ELSE {"ok", "raise"}

\* A publication that tries the default-branch checkout again whenever it
\* raised.
OnPublishRaiseRetrying(op) ==
  CASE op \in {"checkout", "checkout2"} -> "fetch"
    [] op = "diff" -> "upload"
    [] OTHER -> "threw"

\* Where createBranchAndPR continues when a remote call has raised: a raised
\* checkout is followed by fetch and a second checkout (lines 427-433), a
\* raised diff is caught (492-499), every other error leaves the function.
OnPublishRaise(op) ==
  CASE op = "checkout" -> "fetch"
    [] op = "diff" -> "upload"
    [] OTHER -> "threw"

\* A publication that raises when the status snapshot is empty.
OnPublishReturnNeedingChanges(op, outcome, hasChanges) ==
  CASE op = "get" -> "workDir"
    [] op = "workDir" -> "config"
    [] op = "config" -> "checkout"
    [] op \in {"checkout", "checkout2"} -> "status"
    [] op = "fetch" -> "checkout2"
    [] op = "status" -> "branch"
    [] op = "branch" -> IF hasChanges THEN "add" ELSE "threw"
    [] op = "add" -> "commit"
    [] op = "commit" -> "setUrl"
    [] op = "setUrl" -> "push"
    [] op = "push" -> "diff"
    [] op = "diff" -> "upload"
    [] op = "upload" -> "script"
    [] OTHER -> IF outcome = "ok" THEN "returned" ELSE "threw"

\* A publication that stages and commits whatever the status snapshot says.
OnPublishReturnAlwaysCommitting(op, outcome, hasChanges) ==
  CASE op = "get" -> "workDir"
    [] op = "workDir" -> "config"
    [] op = "config" -> "checkout"
    [] op \in {"checkout", "checkout2"} -> "status"
    [] op = "fetch" -> "checkout2"
    [] op = "status" -> "branch"
    [] op = "branch" -> "add"
    [] op = "add" -> "commit"
    [] op = "commit" -> "setUrl"
    [] op = "setUrl" -> "push"
    [] op = "push" -> IF hasChanges THEN "diff" ELSE "upload"
    [] op = "diff" -> "upload"
    [] op = "upload" -> "script"
    [] OTHER -> IF outcome = "ok" THEN "returned" ELSE "threw"

\* Lines 401-613: where createBranchAndPR continues when a remote call has
\* returned.  The exit code of a command is not looked at; staging, commit
\* and diff are for a non-empty status snapshot only (447-465, 491); the
\* script that exits non-zero has printed no JSON, and the parse raises
\* (600-613).
OnPublishReturn(op, outcome, hasChanges) ==
  CASE op = "get" -> "workDir"
    [] op = "workDir" -> "config"
    [] op = "config" -> "checkout"
    [] op \in {"checkout", "checkout2"} -> "status"
    [] op = "fetch" -> "checkout2"
    [] op = "status" -> "branch"
    [] op = "branch" -> IF hasChanges THEN "add" ELSE "setUrl"
    [] op = "add" -> "commit"
    [] op = "commit" -> "setUrl"
    [] op = "setUrl" -> "push"
    [] op = "push" -> IF hasChanges THEN "diff" ELSE "upload"
    [] op = "diff" -> "upload"
    [] op = "upload" -> "script"
    [] OTHER -> IF outcome = "ok" THEN "returned" ELSE "threw"

PublishNext(op, outcome, hasChanges) ==
  IF outcome = "raise" THEN OnPublishRaise(op)
  ELSE OnPublishReturn(op, outcome, hasChanges)

\* What 'git status --short' prints: the changed files when it succeeds;
\* nothing or an error text when it fails.
StatusOutputs(workingTree, outcome) ==
  IF outcome = "ok" THEN {IF workingTree = "dirty" THEN "M file" ELSE ""}
  ELSE {"", "fatal"}

\* Lines 490-503: changesSummary.
ChangesSummary(hasChanges, diffOutcome) ==
  IF ~hasChanges THEN NoChangesNote
  ELSE CASE diffOutcome = "ok" -> "diff --stat"
         [] diffOutcome = "exit" -> SeeDiff
         [] OTHER -> NoDiffSummary

\* Lines 516-560: the request the script sends to pulls.create.
PullRequest(in, summary) ==
  [title |-> in.issueTitle,
   head |-> BranchName(in.issueNumber, in.issueTitle),
   base |-> in.defaultBranch,
   body |-> [issueNumber |-> in.issueNumber, changesSummary |-> summary,
             beforePreviewUrl |-> in.beforePreviewUrl,
             beforePreviewToken |-> in.beforePreviewToken,
             afterPreviewUrl |-> in.afterPreviewUrl,
             afterPreviewToken |-> in.afterPreviewToken,
             closes |-> in.issueNumber]]

\* The outcome of the diff call, "none" when it was not issued.
DiffOutcome(calls) ==
  IF \E i \in 1..Len(calls) : calls[i].op = "diff"
  THEN LET i == CHOOSE i \in 1..Len(calls) : calls[i].op = "diff" IN calls[i].outcome
  ELSE "none"

\* The issue titles publication is run with: one of plain words and one of
\* characters the shell gives a meaning to.
PublishTitles == {<<"Z", " ", "a">>, <<"'", ";">>}

\* Line 460: replace(/'/g, "'\\''"): every single quote becomes the four
\* characters that close the quoted word, add a quote and open it again.
RECURSIVE EscapeQuotes(_)
EscapeQuotes(s) ==
  IF s = <<>> THEN <<>>
  ELSE (IF Head(s) = "'" THEN <<"'", "\\", "'", "'">> ELSE <<Head(s)>>)
       \o EscapeQuotes(Tail(s))

\* A part of a command line: where its text comes from, what was applied to
\* it before it was put there, and the text.
Code(text) == [from |-> "code", encoding |-> "none", text |-> <<text>>]
Argument(from, encoding, text) == [from |-> from, encoding |-> encoding, text |-> text]

\* The branch name as it stands in a command line.
BranchArgument(in) ==
  Argument("issueTitle", "slug", <<"autofix/issue-", ToString(in.issueNumber), "-">>
                                 \o Slug(in.issueTitle))

\* Lines 420-596: the command line of each executeCommand of
\* createBranchAndPR; the SDK calls have none.  The script is uploaded as a
\* file (582) and only its path stands in the command.
PublishCommandLine(op, in) ==
  CASE op = "config" ->
         <<Code("git config user.name \"AutoFixer Bot\" && git config user.email \"autofixer@daytona.io\"")>>
    [] op \in {"checkout", "checkout2"} ->
         <<Code("git checkout "), Argument("repository", "none", <<in.defaultBranch>>)>>
    [] op = "fetch" -> <<Code("git fetch origin")>>
    [] op = "status" -> <<Code("git status --short")>>
    [] op = "branch" -> <<Code("git checkout -b "), BranchArgument(in)>>
    [] op = "add" -> <<Code("git add -A")>>
    [] op = "commit" ->
         <<Code("git commit -m '"), Code("AutoFix: "),
           Argument("issueTitle", "quoted", EscapeQuotes(in.issueTitle)),
           Code("\n\nFixes #"),
           Argument("issueNumber", "decimal", <<ToString(in.issueNumber)>>),
           Code("\n\nThis PR was automatically generated by AutoFixer."), Code("'")>>
    [] op = "setUrl" ->
         <<Code("git remote set-url origin "), Argument("environment", "none", <<"remoteUrl">>),
           Code(" || git remote add origin "), Argument("environment", "none", <<"remoteUrl">>)>>
    [] op = "push" -> <<Code("git push -u origin "), BranchArgument(in)>>
    [] op = "diff" ->
         <<Code("git diff "), Argument("repository", "none", <<in.defaultBranch>>),
           Code(".."), BranchArgument(in), Code(" --stat")>>
    [] op = "script" -> <<Code("node "), Argument("sandbox", "none", <<"/.create-pr.js">>)>>
    [] OTHER -> <<>>

InitPublish ==
  /\ env = [WEBHOOK_SECRET |-> TRUE, DAYTONA_API_KEY |-> TRUE,
            ANTHROPIC_API_KEY |-> TRUE, GITHUB_TOKEN |-> TRUE]
  /\ now = 0
  /\ issues = <<>>
  /\ sandboxes = {BeforeId(1), AfterId(1)}
  /\ pc = [h \in Handlers |-> IF h = 1 THEN "publish" ELSE "idle"]
  /\ req = [h \in Handlers |-> NoRequest]
  /\ \E n \in IssueNumbers :
       run = [h \in Handlers |->
                IF h = 1
                THEN [NoRun EXCEPT !.issueNumber = n, !.beforeResult = BeforeId(1),
                                   !.before = BeforeId(1), !.after = AfterId(1),
                                   !.target = StageTarget("publish", BeforeId(1),
                                                          AfterId(1)),
                                   !.remote = TRUE]
                ELSE NoRun]
  /\ resp = [h \in Handlers |-> NoResponse]
  /\ vIn = <<>>
  /\ vOut = ""
  /\ NoDbOp /\ NoPair /\ NoSlug
  /\ aPc = "returned" /\ owner = "root" /\ aCmd = <<>> /\ aOut = <<>>
  /\ timer = "cleared"
  /\ tree \in {"clean", "dirty"}
  /\ pubOut = [hasChanges |-> FALSE, committed |-> FALSE]
  /\ pIn = <<>>
  /\ pPc = "idle"
  /\ pCalls = <<>>
  /\ pulls = {}
  /\ pRet = <<>>

\* Lines 140-171 of the handler: both preview links have been obtained anew
\* (142-143) and createBranchAndPR is called with the AFTER sandbox, the
\* issue and those links.
PublishCall ==
  /\ pc[1] = "publish" /\ pPc = "idle"
  /\ \E title \in PublishTitles :
       pIn' = PublishArguments(run[1].issueNumber, title, run[1].after,
                               Preview("before", "refreshed"),
                               Preview("after", "refreshed"))
  /\ pPc' = "get"
  /\ UNCHANGED <<env, now, issues, sandboxes, pc, req, run, resp,
                 pubOut, pCalls, pulls, pRet,
                 verifyVars, dbVars, pairVars, agentVars, slugVars>>

\* One await of createBranchAndPR: the call is issued in the sandbox and
\* returns or raises.
PublishAwait ==
  /\ pPc \in PublishCommands \cup PublishSdkCalls
  /\ \E outcome \in Outcomes(pPc) :
       \E output \in (IF pPc = "status" /\ outcome # "raise"
                      THEN StatusOutputs(tree, outcome) ELSE {""}) :
         LET hasChanges == IF pPc = "status" /\ outcome # "raise"
                           THEN output # "" ELSE pubOut.hasChanges
             calls == Append(pCalls,
                        [op |-> pPc, outcome |-> outcome, sandbox |-> pIn.sandboxId,
                         fixes |-> IF pPc = "commit" THEN pIn.issueNumber ELSE 0,
                         command |-> PublishCommandLine(pPc, pIn)])
             summary == ChangesSummary(hasChanges, DiffOutcome(calls))
         IN  /\ pCalls' = calls
             /\ pPc' = PublishNext(pPc, outcome, hasChanges)
             /\ pubOut' = [hasChanges |-> hasChanges,
                           committed |-> pubOut.committed \/ (pPc = "commit" /\ outcome = "ok")]
             /\ tree' = IF pPc = "commit" /\ outcome = "ok" THEN "clean" ELSE tree
             /\ pulls' = IF pPc = "script" /\ outcome = "ok"
                         THEN pulls \cup {PullRequest(pIn, summary)} ELSE pulls
             /\ pRet' = CASE pPc' = "returned" ->
                               [threw |-> FALSE,
                                branchName |-> BranchName(pIn.issueNumber, pIn.issueTitle)]
                          [] pPc' = "threw" -> [threw |-> TRUE]
                          [] OTHER -> pRet
  /\ UNCHANGED <<env, now, issues, sandboxes, pc, req, run, resp, pIn,
                 aPc, owner, aCmd, aOut, timer, verifyVars, dbVars, pairVars, slugVars>>

NextPublish == PublishCall \/ PublishAwait

SpecPublish == InitPublish /\ [][NextPublish]_vars

----------------------------------------------------------------------------
(* Properties                                                              *)

\* The awaits of the pipeline: the invocation has started a run that has not
\* ended.
PipelineStages ==
  {"createBefore", "createAfter", "setupBefore", "agent", "setupAfter",
   "previewBefore", "previewAfter", "publish"}

\* The awaits of the remote calls made before publication.
FixStages == PipelineStages \ {"publish"}

NonTerminal == {"pending", "processing"}
Terminal == {"completed", "failed"}

StatusOrder(status) ==
  CASE status = "pending" -> 0 [] status = "processing" -> 1 [] OTHER -> 2

\* C1: the status of the run record of an issue number only moves along
\* pending -> processing -> {completed, failed}: a completed or failed record
\* never becomes pending or processing again, whatever events are delivered.
C1_StatusMonotonic ==
  [][\A n \in DOMAIN issues :
       StatusOrder(issues'[n].status) >= StatusOrder(issues[n].status)]_vars

\* C2: a second 'opened' event for an issue whose run has not ended starts no
\* second pipeline: at most one run per issue number is in progress, and at
\* most one pair of environments is created for it.
C2_SinglePipelinePerIssue ==
  \A n \in IssueNumbers :
    Cardinality({h \in Handlers : pc[h] \in PipelineStages /\ run[h].issueNumber = n}) <= 1

\* The fields of a run record C3 speaks of.
RecordView(record) ==
  [status |-> record.status,
   createdAt |-> record.createdAt,
   beforeWorkspaceId |->
     IF "beforeWorkspaceId" \in DOMAIN record THEN record.beforeWorkspaceId ELSE 0,
   afterWorkspaceId |->
     IF "afterWorkspaceId" \in DOMAIN record THEN record.afterWorkspaceId ELSE 0]

\* C3: an 'opened' event for an issue number whose run record is pending or
\* processing is dropped, and the record keeps its status, its creation
\* timestamp and its environment ids.
C3_DuplicateDropped ==
  [][\A h \in Handlers :
       LET n == req[h].payload.number IN
       (/\ pc[h] = "rawBody" /\ pc'[h] # "rawBody"
        /\ n \in DOMAIN issues
        /\ issues[n].status \in NonTerminal)
       => /\ pc'[h] = "done"
          /\ RecordView(issues'[n]) = RecordView(issues[n])]_vars

\* C4: when a provisioning call, an app-setup command or the agent command
\* raises or times out, no later stage is started and the status of the run
\* record becomes failed.
C4_FailureMarksFailed ==
  [][\A h \in Handlers :
       (pc[h] \in FixStages /\ pc'[h] = "done" /\ resp'[h].status = 500)
       => issues'[run[h].issueNumber].status = "failed"]_vars

\* The outcomes of publication C5 speaks of: the push or the pull-request
\* creation failed.
PushOrPullRequestFailed == {"push", "pullRequest"}

C6_IdsRecordedOnceCreated ==
  \A h \in Handlers :
    run[h].after # 0
    => LET record == issues[run[h].issueNumber] IN
       /\ "beforeWorkspaceId" \in DOMAIN record
       /\ "afterWorkspaceId" \in DOMAIN record

\* No remote side effect was attempted for the request of invocation h.
NoRemoteEffect(h) ==
  /\ ~run[h].remote
  /\ sandboxes \cap {BeforeId(h), AfterId(h)} = {}

Authenticated(h) ==
  /\ req[h].method = "POST"
  /\ env.WEBHOOK_SECRET
  /\ req[h].signature = ValidSignature(req[h].payload)

\* C8: an authenticated event whose action is not 'opened' or whose issue is
\* null or absent never starts the pipeline (no run record, no remote call)
\* and is answered 200 'ignored'.
C8_OtherEventsIgnored ==
  (/\ pc[1] = "done"
   /\ Authenticated(1)
   /\ req[1].payload.parse
   /\ req[1].payload.action # "opened" \/ req[1].payload.issue \in {"null", "absent"})
  => /\ resp[1] = [status |-> 200, body |-> "Event ignored"]
     /\ issues = <<>>
     /\ NoRemoteEffect(1)

\* C9: a POST request whose X-Hub-Signature-256 header is missing or is not
\* the valid signature of the raw body, whatever its length, is answered 401,
\* and no run record is created and no remote call is made for it.
C9_BadSignatureIs401 ==
  (/\ pc[1] = "done"
   /\ req[1].method = "POST"
   /\ env.WEBHOOK_SECRET
   /\ req[1].signature # ValidSignature(req[1].payload))
  => /\ resp[1].status = 401
     /\ issues = <<>>
     /\ NoRemoteEffect(1)

\* C10: verify returns true for the valid header, false for every single-bit
\* mutation of the body or of the header, and false, without throwing, for a
\* missing header.
C10_VerifyContract ==
  vOut # ""
  => /\ vIn.kind = "valid" => vOut = "true"
     /\ vIn.kind \in {"signatureMutated", "bodyMutated", "missing"} => vOut = "false"

\* The event of invocation h is an 'opened' event that fails validation: its
\* issue number is not greater than 0, or its title, repository name,
\* repository owner or clone URL is empty.
FailsValidation(h) ==
  LET p == req[h].payload
  IN  /\ Authenticated(h)
      /\ p.parse /\ p.action = "opened" /\ p.issue = "object"
      /\ \/ p.number <= 0
         \/ p.title = 0
         \/ p.repositoryName = 0
         \/ p.repositoryOwner = 0
         \/ p.cloneUrl = 0

\* C11: an authenticated 'opened' event is answered 400 exactly when its issue
\* number is not greater than 0 or its title, repository name, repository
\* owner or clone URL is empty; for such an event no run record is created
\* and no environment is provisioned.
C11_ValidationRejects ==
  /\ FailsValidation(1) => issues = <<>> /\ NoRemoteEffect(1)
  /\ (/\ pc[1] = "done"
      /\ Authenticated(1)
      /\ req[1].payload.parse
      /\ req[1].payload.action = "opened"
      /\ req[1].payload.issue = "object")
     => (FailsValidation(1) <=> resp[1] = [status |-> 400, body |-> "Invalid issue data"])

\* An 'opened' event whose only defect is an empty clone URL was answered 400.
C11_Witness ==
  /\ pc[1] = "done"
  /\ FailsValidation(1)
  /\ req[1].payload = [OpenedPayload(1) EXCEPT !.cloneUrl = 0]
  /\ resp[1].status = 400
  /\ issues = <<>>

\* An update was applied to a record the store held.
UpdatedExisting ==
  /\ dbOp # <<>>
  /\ dbOp.issueNumber \in DOMAIN dbOp.before

\* The fields of the updated record that the partial update does not name
\* (other than the update timestamp) have the value they had before.
UnnamedFieldsKept ==
  LET old == dbOp.before[dbOp.issueNumber]
      new == issues[dbOp.issueNumber]
  IN  \A f \in DOMAIN old \ (DOMAIN dbOp.updates \cup {"updatedAt"}) :
        f \in DOMAIN new /\ new[f] = old[f]

\* C12 as stated: after update(issueNumber, partialFields) on an existing
\* record, each field not named in the partial update (other than the update
\* timestamp) has the value it had before, and each named field has the new
\* value.
C12_MergeEveryNamedField ==
  UpdatedExisting =>
    /\ UnnamedFieldsKept
    /\ \A f \in DOMAIN dbOp.updates :
         /\ f \in DOMAIN issues[dbOp.issueNumber]
         /\ issues[dbOp.issueNumber][f] = dbOp.updates[f]

\* C12, amended: after update(issueNumber, partialFields) on an existing
\* record, each field not named in the partial update (other than the update
\* timestamp) has the value it had before, and each named field other than
\* the update timestamp has the new value.
C12_MergeExceptTimestamp ==
  UpdatedExisting =>
    /\ UnnamedFieldsKept
    /\ \A f \in DOMAIN dbOp.updates \ {"updatedAt"} :
         /\ f \in DOMAIN issues[dbOp.issueNumber]
         /\ issues[dbOp.issueNumber][f] = dbOp.updates[f]

\* A record holding both sandbox ids had its status alone updated: the ids,
\* the creation timestamp and the issue number are those it had.
C12_Witness ==
  /\ UpdatedExisting
  /\ DOMAIN dbOp.updates = {"status"}
  /\ "beforeWorkspaceId" \in DOMAIN dbOp.before[dbOp.issueNumber]
  /\ dbOp.updates.status # dbOp.before[dbOp.issueNumber].status
  /\ issues[dbOp.issueNumber] =
       [dbOp.before[dbOp.issueNumber] EXCEPT !.status = dbOp.updates.status,
                                             !.updatedAt = dbOp.time]

\* C13: every update of an existing record sets its update timestamp to the
\* time of the update, whatever the partial update carries, and leaves the
\* creation timestamp unchanged unless the partial update names it.
C13_TimestampRefreshed ==
  UpdatedExisting =>
    /\ issues[dbOp.issueNumber].updatedAt = dbOp.time
    /\ "createdAt" \notin DOMAIN dbOp.updates
         => issues[dbOp.issueNumber].createdAt = dbOp.before[dbOp.issueNumber].createdAt

\* The partial update carried an update timestamp other than the time of the
\* update, and the record holds the time of the update.
C13_Witness ==
  /\ UpdatedExisting
  /\ "updatedAt" \in DOMAIN dbOp.updates
  /\ dbOp.updates.updatedAt # dbOp.time
  /\ issues[dbOp.issueNumber].updatedAt = dbOp.time
  /\ dbOp.before[dbOp.issueNumber].updatedAt # dbOp.time

\* The fields of a pull-request result (createBranchAndPR's return value).
PullRequestFields == {"branchName", "prNumber", "prUrl"}

\* C14: after a publication that succeeded the run record holds the
\* pull-request result (branch name, PR number, PR URL); after a publication
\* that failed or was skipped it holds none.
C14_PullRequestRecorded ==
  \A h \in Handlers :
    (pc[h] = "done" /\ run[h].publication # "none")
    => LET record == issues[run[h].issueNumber]
       IN  IF run[h].publication = "created"
           THEN PullRequestFields \subseteq DOMAIN record
           ELSE PullRequestFields \cap DOMAIN record = {}

\* createSandboxPair has issued a call for the sandbox of a role.
Attempted(role) == \E i \in 1..Len(cCalls) : cCalls[i].role = role

\* C15: if creating or setting up the BEFORE environment fails, the pair is
\* aborted and no creation of the AFTER environment is attempted.
C15_BeforeFailureAborts ==
  /\ [][(Len(cPc) = 2 /\ cPc[1] = "before" /\ cPc' # OnReturn(cPc[1], cPc[2]))
        => /\ cPc' = <<"threw">>
           /\ cOut'.threw
           /\ ~Attempted("after")']_vars
  /\ []((cPc = <<"threw">> /\ cOut.at[1] = "before") => ~Attempted("after"))

\* The clone into the BEFORE sandbox raised: the pair raised and nothing was
\* issued for an AFTER sandbox.
C15_Witness ==
  /\ cPc = <<"threw">>
  /\ cOut.threw
  /\ cOut.at = <<"before", "clone">>
  /\ BeforeId(1) \in sandboxes
  /\ ~Attempted("after")

\* C16: when createSandboxPair ends, its caller holds the handle of every
\* environment that was created; in particular the BEFORE handle when the
\* AFTER environment failed.
C16_CreatedHandlesSurface ==
  cOut # <<>> => sandboxes \subseteq cOut.handles

\* C17: the agent credential is in the create options of the AFTER sandbox
\* and in no call issued for the BEFORE sandbox.
C17_KeyOnlyForAfter ==
  \A i \in 1..Len(cCalls) :
    cCalls[i].key = IF cCalls[i].role = "after" /\ cCalls[i].op = "create"
                    THEN cIn.anthropicApiKey ELSE 0

\* Both sandboxes were created; the AFTER create carried the key.
C17_Witness ==
  /\ cPc = <<"returned">>
  /\ \E i, j \in 1..Len(cCalls) :
       /\ cCalls[i] = [role |-> "before", op |-> "create", key |-> 0, token |-> FALSE]
       /\ cCalls[j] = [role |-> "after", op |-> "create",
                       key |-> cIn.anthropicApiKey, token |-> FALSE]

\* C18: a clone carries the hosting-provider token only if the host of the
\* clone URL is github.com; every other clone is anonymous.
C18_TokenOnlyForGitHubHost ==
  \A i \in 1..Len(cCalls) :
    (cCalls[i].op = "clone" /\ cCalls[i].token)
    => UrlHost(cIn.cloneUrl) = <<"github.com">>

\* C19: when the runner has returned or raised, the repository path is owned
\* by root, whatever the outcome of the agent command.
C19_OwnershipReverted ==
  aPc \in {"returned", "threw"} => owner = "root"

\* No structured payload can be parsed from the output of the agent command.
Unparsable(output) ==
  JsonMatch(output) = <<>> \/ ~JsonValid(JsonMatch(output))

\* C20: when no structured payload can be parsed from the output of the agent
\* command, the runner does not raise; it returns the raw text with the
\* parse-failure warning and the handler goes on to the AFTER setup; the
\* publication that follows decides from the working-tree status whether
\* there are changes to commit.
C20_UnparsableOutputDegrades ==
  /\ []((aCmd # <<>> /\ Unparsable(aCmd.result)) => aPc # "threw")
  /\ [][(aPc = "chownRoot" /\ aPc' = "returned" /\ Unparsable(aCmd.result))
        => /\ aOut' = [kind |-> "degraded", result |-> aCmd.result,
                       warning |-> TRUE, exitCode |-> aCmd.exitCode]
           /\ pc'[1] = "setupAfter"
           /\ resp' = resp /\ issues' = issues]_vars
  /\ []((pc[1] = "done" /\ run[1].publication = "created")
        => /\ pubOut.hasChanges = (tree = "dirty")
           /\ pubOut.committed = (tree = "dirty"))

\* The agent printed log text only and changed files: the runner returned the
\* degraded result, the run went on and its publication found the changes.
C20_Witness ==
  /\ pc[1] = "done"
  /\ aPc = "returned"
  /\ aCmd.result = <<"t">>
  /\ aOut.kind = "degraded" /\ aOut.warning /\ aOut.result = <<"t">>
  /\ run[1].publication = "created"
  /\ pubOut.hasChanges
  /\ issues[1].status = "completed"
  /\ resp[1].status = 200

\* Line 134 of the handler can log the result: its member 'result' is absent
\* or a string.
Loggable(result) == result.kind # "parsed" \/ result.result # "number"

C24_BranchNameSafe ==
  sOut # <<>> =>
    /\ sOut.prefix = "autofix/issue-" /\ sOut.hyphen = "-"
    /\ sOut.number = sIn.issueNumber
    /\ sOut = BranchName(sIn.issueNumber, sIn.title)
    /\ \A i \in 1..Len(sOut.slug) : sOut.slug[i] \in LowerAlnum \cup {"-"}
    /\ Len(sOut.slug) <= SlugMax

\* A title longer than 50 characters with a letter outside ASCII got a branch
\* name whose slug has 50 characters.
C24_Witness ==
  /\ sOut # <<>>
  /\ Len(sIn.title) > SlugMax
  /\ \E i \in 1..Len(sIn.title) : sIn.title[i] = "é"
  /\ Len(sOut.slug) = SlugMax

\* The places of the calls of an operation in the calls of createBranchAndPR.
CallsOf(ops) == {i \in 1..Len(pCalls) : pCalls[i].op \in ops}

\* C22: in publish, a step (identity configuration, checkout after its
\* retry, status snapshot, branch creation, staging, commit, push) that
\* raised or exited non-zero is the last one: nothing runs after it and no
\* pull request is created.
C22_FailedStepAborts ==
  \A i \in CallsOf({"config", "checkout2", "status", "branch", "add", "commit", "push"}) :
    pCalls[i].outcome # "ok"
    => /\ i = Len(pCalls)
       /\ pPc = "threw"
       /\ pulls = {}

\* C23: the default-branch checkout is attempted at most twice; the second
\* attempt follows a first attempt that raised and the fetch issued after
\* it; when the second attempt raises publication raises; no other remote
\* call is issued twice.
C23_OneRetry ==
  /\ Cardinality(CallsOf({"checkout"})) <= 1
  /\ Cardinality(CallsOf({"checkout2"})) <= 1
  /\ \A j \in CallsOf({"checkout2"}) :
       /\ j > 2
       /\ pCalls[j - 1].op = "fetch" /\ pCalls[j - 1].outcome # "raise"
       /\ pCalls[j - 2].op = "checkout" /\ pCalls[j - 2].outcome = "raise"
       /\ pCalls[j].outcome = "raise" => (j = Len(pCalls) /\ pPc = "threw" /\ pRet.threw)
  /\ \A i \in CallsOf({"checkout"}) :
       (pCalls[i].outcome = "raise" /\ Len(pCalls) > i) => pCalls[i + 1].op = "fetch"
  /\ \A i, j \in 1..Len(pCalls) : pCalls[i].op = pCalls[j].op => i = j

\* The first checkout raised, the fetch returned and the second checkout
\* raised: publication raised after these calls.
C23_Witness ==
  /\ pPc = "threw"
  /\ Len(pCalls) = 6
  /\ pCalls[4].op = "checkout" /\ pCalls[4].outcome = "raise"
  /\ pCalls[5].op = "fetch" /\ pCalls[5].outcome = "ok"
  /\ pCalls[6].op = "checkout2" /\ pCalls[6].outcome = "raise"

\* createBranchAndPR has returned, no call having raised or exited non-zero
\* on its way.
PublishedCleanly ==
  /\ pPc = "returned"
  /\ \A i \in 1..Len(pCalls) : pCalls[i].outcome = "ok"

\* The status snapshot was taken of a working tree without changes:
\* 'git status --short' returned with exit code 0 and the tree is clean
\* without a commit having cleaned it.
CleanSnapshot ==
  /\ \E i \in CallsOf({"status"}) : pCalls[i].outcome = "ok"
  /\ tree = "clean" /\ ~pubOut.committed

\* C25: when the working tree has no changes, publish does not raise for
\* that reason (it raises only when a remote call raised or the pull-request
\* script failed), and when it returns it returns a pull-request result for
\* a pull request whose body carries the note that no code changes were
\* detected.
C25_NoChangesStillPublishes ==
  /\ pPc = "threw" => \/ pCalls[Len(pCalls)].outcome = "raise"
                      \/ pCalls[Len(pCalls)].op = "script"
  /\ CleanSnapshot
     => /\ ~pubOut.hasChanges
        /\ CallsOf({"add", "commit", "diff"}) = {}
        /\ pPc = "returned"
           => /\ ~pRet.threw
              /\ pRet.branchName = BranchName(pIn.issueNumber, pIn.issueTitle)
              /\ pulls = {PullRequest(pIn, NoChangesNote)}

\* The tree was clean, every call succeeded, and the pull request with the
\* note was created.
C25_Witness ==
  /\ PublishedCleanly
  /\ CleanSnapshot
  /\ ~pRet.threw
  /\ \E pr \in pulls : pr.body.changesSummary = NoChangesNote

\* C26: staging and commit are issued if and only if the status snapshot
\* taken before the branch was created is non-empty (and, for the commit,
\* staging did not raise); either way a publication that returns has created
\* and pushed the branch; the commit message references the issue number.
C26_CommitIffChanges ==
  /\ \A i \in CallsOf({"add"}) :
       /\ pubOut.hasChanges
       /\ pCalls[i - 1].op = "branch"
       /\ \E j \in 1..(i - 2) : pCalls[j].op = "status"
  /\ \A i \in CallsOf({"commit"}) :
       /\ pCalls[i - 1].op = "add" /\ pCalls[i - 1].outcome # "raise"
       /\ pCalls[i].fixes = pIn.issueNumber
  /\ \A i \in CallsOf({"branch"}) :
       (pubOut.hasChanges /\ pCalls[i].outcome # "raise" /\ Len(pCalls) > i)
       => pCalls[i + 1].op = "add"
  /\ \A i \in CallsOf({"add"}) :
       (pCalls[i].outcome # "raise" /\ Len(pCalls) > i) => pCalls[i + 1].op = "commit"
  /\ pPc = "returned"
     => /\ CallsOf({"branch"}) # {} /\ CallsOf({"push"}) # {}
        /\ (CallsOf({"commit"}) # {}) = pubOut.hasChanges

\* Both cases of a publication in which every call succeeded: a dirty tree,
\* staged and committed, or a clean tree with neither.
C26_Witness ==
  /\ PublishedCleanly
  /\ pubOut.hasChanges /\ pubOut.committed
  /\ CallsOf({"add"}) # {} /\ CallsOf({"commit"}) # {} /\ CallsOf({"push"}) # {}

\* C27: every pull request created by publish has the derived branch as
\* head and the default branch as base, and its body holds the diff summary
\* (the output of git diff --stat or one of the two placeholders; the note
\* when there was nothing to commit), the preview link and token of the
\* BEFORE sandbox and of the AFTER sandbox as obtained after both apps were
\* started, and 'Closes #' with the issue number of the run.
C27_PullRequestContents ==
  \A pr \in pulls :
    /\ pr.head = BranchName(run[1].issueNumber, pIn.issueTitle)
    /\ pr.base = pIn.defaultBranch
    /\ pr.body.changesSummary
         = (IF pubOut.hasChanges
            THEN CASE DiffOutcome(pCalls) = "ok" -> "diff --stat"
                   [] DiffOutcome(pCalls) = "exit" -> SeeDiff
                   [] OTHER -> NoDiffSummary
            ELSE NoChangesNote)
    /\ pr.body.beforePreviewUrl = Preview("before", "refreshed").url
    /\ pr.body.beforePreviewToken = Preview("before", "refreshed").token
    /\ pr.body.afterPreviewUrl = Preview("after", "refreshed").url
    /\ pr.body.afterPreviewToken = Preview("after", "refreshed").token
    /\ pr.body.closes = run[1].issueNumber

\* A pull request was created for a committed change whose diff summary was
\* obtained.
C27_Witness ==
  /\ PublishedCleanly
  /\ pubOut.committed
  /\ DiffOutcome(pCalls) = "ok"
  /\ \E pr \in pulls : pr.body.changesSummary = "diff --stat"

\* C28: every remote command that depends on the issue title or body
\* carries that text in base64 only; the characters of the issue text never
\* stand in a command line themselves.
C28_IssueTextOnlyEncoded ==
  \A i \in 1..Len(pCalls) :
    \A k \in 1..Len(pCalls[i].command) :
      LET part == pCalls[i].command[k]
      IN  (part.from \in {"issueTitle", "issueBody"} /\ part.encoding # "slug")
          => part.encoding = "base64"

\* The pipeline of invocation h fails in this step: a remote call raised (an
\* error or a timeout) and the catch block answered 500.
PipelineFails(h) ==
  /\ pc[h] \in PipelineStages
  /\ pc'[h] = "done"
  /\ resp'[h].status = 500

\* Invocations h and g run pipelines for different issue numbers.
DifferentIssues(h, g) ==
  /\ h # g
  /\ run[h].issueNumber # 0 /\ run[g].issueNumber # 0
  /\ run[h].issueNumber # run[g].issueNumber

\* C29: when the pipeline of one issue fails (an error or a timeout of a
\* remote call), no field of the run record of another issue changes and the
\* invocation working on that other issue is left where it is; a pipeline
\* that has started always reaches its end, whatever happens to the others.
C29_FailureIsolated ==
  /\ [][\A h, g \in Handlers :
          (PipelineFails(h) /\ DifferentIssues(h, g))
          => /\ issues'[run[g].issueNumber] = issues[run[g].issueNumber]
             /\ pc'[g] = pc[g] /\ run'[g] = run[g] /\ resp'[g] = resp[g]]_vars
  /\ \A g \in Handlers : (pc[g] \in PipelineStages) ~> (pc[g] = "done")

\* One pipeline failed at a remote call and the pipeline of the other issue
\* completed, with its record saying so.
C29_Witness ==
  /\ DifferentIssues(1, 2)
  /\ run[1].remote /\ resp[1].status = 500
  /\ resp[2].status = 200 /\ run[2].publication = "created"
  /\ issues[run[2].issueNumber].status = "completed"
  /\ issues[run[1].issueNumber].status = "processing"

\* The place of an await in the handler's text.
StageRank(stage) ==
  CASE stage = "idle" -> 0
    [] stage = "rawBody" -> 1
    [] stage = "createBefore" -> 2
    [] stage = "createAfter" -> 3
    [] stage = "setupBefore" -> 4
    [] stage = "agent" -> 5
    [] stage = "setupAfter" -> 6
    [] stage = "previewBefore" -> 7
    [] stage = "previewAfter" -> 8
    [] stage = "publish" -> 9
    [] OTHER -> 10

\* C30: within one run the stages follow each other in the order create
\* pair, BEFORE setup, agent, AFTER setup, preview links, publication,
\* terminal status: the handler moves from an await to the next one only, or
\* to its end.  The setups are awaited with both sandboxes created; the AFTER
\* setup, the preview links and the publication are awaited only after the
\* agent runner has returned a parsed or a degraded result; the terminal
\* status of a published run is written after that too.
C30_StagesInOrder ==
  /\ [][pc'[1] # pc[1]
        => \/ pc'[1] = "done"
           \/ StageRank(pc'[1]) = StageRank(pc[1]) + 1]_vars
  /\ [](StageRank(pc[1]) \in 4..9
        => /\ run[1].before # 0 /\ run[1].after # 0
           /\ {run[1].before, run[1].after} \subseteq sandboxes)
  /\ [](StageRank(pc[1]) < 5 => aPc = "idle")
  /\ []((StageRank(pc[1]) \in 6..9 \/ run[1].publication # "none")
        => /\ aPc = "returned"
           /\ aOut # <<>> /\ aOut.kind \in {"parsed", "degraded"})
  /\ [](issues # <<>> /\ run[1].issueNumber # 0
        => (issues[run[1].issueNumber].status = "completed"
            => run[1].publication # "none"))

\* A run went through every stage with a degraded agent result and wrote
\* its terminal status.
C30_Witness ==
  /\ pc[1] = "done" /\ resp[1].status = 200
  /\ run[1].publication = "created"
  /\ aPc = "returned" /\ aOut # <<>> /\ aOut.kind = "degraded"
  /\ issues[run[1].issueNumber].status = "completed"

\* C39: the slug of the branch name neither begins nor ends with '-', for
\* every title, also when it is cut to 50 characters.
C39_SlugNoEdgeHyphen ==
  (sOut # <<>> /\ sOut.slug # <<>>)
  => /\ sOut.slug[1] # "-"
     /\ sOut.slug[Len(sOut.slug)] # "-"

\* An update was applied for an issue number the store held no record of.
UpdatedMissing ==
  /\ dbOp # <<>>
  /\ dbOp.issueNumber \notin DOMAIN dbOp.before

\* C36: update(issueNumber, partialFields) for an issue number without a
\* record leaves the store as it was: no record is created and no other
\* record changes; an update never adds a record to the store.
C36_UpdateOfMissingIsNoOp ==
  /\ UpdatedMissing => issues = dbOp.before
  /\ dbOp # <<>> => DOMAIN issues = DOMAIN dbOp.before

\* An update naming a status and both sandbox ids was applied for an issue
\* number without a record, while the store held the record of another issue.
C36_Witness ==
  /\ UpdatedMissing
  /\ DOMAIN dbOp.before # {}
  /\ {"status", "beforeWorkspaceId", "afterWorkspaceId"} \subseteq DOMAIN dbOp.updates
  /\ dbOp.issueNumber \notin DOMAIN issues

\* C34: once runClaudeCodeInSandbox has returned or raised, its progress
\* poll is stopped, on the success path and on the failure path alike.
C34_PollStopped ==
  aPc \in {"returned", "threw"} => timer # "running"

\* The pieces free-form log text is written with.
LogPieces == {"t", "{", "}"}

\* The output holds a well-formed JSON object with nothing but log text
\* before it and after it.
EmbedsObject(output) ==
  \E i, j \in 1..Len(output) :
    /\ i < j
    /\ JsonValid(SubSeq(output, i, j))
    /\ \A k \in 1..Len(output) : (k < i \/ k > j) => output[k] \in LogPieces

\* C32: when the output of the agent command holds a well-formed JSON object
\* surrounded by log text, which may hold braces of its own, the runner
\* returns the parsed object and not the degraded result.
C32_EmbeddedObjectParsed ==
  (aPc = "returned" /\ EmbedsObject(aCmd.result)) => aOut.kind = "parsed"

\* C37: when the provisioning key or the agent credential is missing, every
\* accepted 'opened' event is answered 500, its run record is failed as soon
\* as the handler lets go of it and is never processing, and no environment
\* is created and no pipeline stage is entered.
C37_MissingKeyFailsRun ==
  (~env.DAYTONA_API_KEY \/ ~env.ANTHROPIC_API_KEY)
  => /\ sandboxes = {}
     /\ \A n \in DOMAIN issues : issues[n].status = "failed"
     /\ \A h \in Handlers :
          /\ pc[h] \notin PipelineStages
          /\ run[h].issueNumber # 0
             => /\ pc[h] = "done"
                /\ resp[h].status = 500
                /\ resp[h].body = MissingCredential(env)
                /\ ~run[h].remote
                /\ run[h].before = 0 /\ run[h].after = 0
                /\ run[h].issueNumber \in DOMAIN issues

\* Two 'opened' events for different issues were accepted without the
\* provisioning key: both are answered 500 and both records are failed.
C37_Witness ==
  /\ ~env.DAYTONA_API_KEY /\ env.ANTHROPIC_API_KEY /\ env.WEBHOOK_SECRET
  /\ DifferentIssues(1, 2)
  /\ resp[1].status = 500 /\ resp[2].status = 500
  /\ \A n \in {run[1].issueNumber, run[2].issueNumber} : issues[n].status = "failed"

\* C33: every remote call returning or raising, every run record the
\* handler created eventually has a terminal status, completed or failed.
C33_EveryRunTerminates ==
  \A n \in IssueNumbers :
    (n \in DOMAIN issues)
    ~> (n \in DOMAIN issues /\ issues[n].status \in Terminal)

\* The awaits whose call is handed a sandbox id.
TargetedStages ==
  {"setupBefore", "agent", "setupAfter", "previewBefore", "previewAfter", "publish"}

\* The sandbox ids invocation h holds or addresses.
IdsOf(h) == {run[h].beforeResult, run[h].before, run[h].after, run[h].target} \ {0}

\* C31: every call a run issues with a sandbox id (app setup, agent command,
\* preview-link request, publication) is addressed to one of the two
\* sandboxes its own createSandboxPair created and returned, and no sandbox
\* id is held or addressed by two invocations, whether they work on
\* different issues or on the same one.
C31_OwnPairOnly ==
  /\ \A h \in Handlers :
       pc[h] \in TargetedStages
       => /\ run[h].before = BeforeId(h) /\ run[h].after = AfterId(h)
          /\ run[h].target \in {run[h].before, run[h].after}
          /\ run[h].target \in sandboxes
  /\ \A h, g \in Handlers : h # g => IdsOf(h) \cap IdsOf(g) = {}

\* Two runs for the same issue number are under way, the agent of one and
\* the preview-link request of the other, each in a sandbox of its own pair.
C31_Witness ==
  /\ run[1].issueNumber = run[2].issueNumber
  /\ pc[1] = "agent" /\ pc[2] = "previewBefore"
  /\ run[1].target = AfterId(1) /\ run[2].target = BeforeId(2)

\* runClaudeCodeInSandbox is under way.
AgentRunning == aPc \notin {"idle", "returned", "threw"}

\* C38: the agent command and the publication are executed in the AFTER
\* sandbox of the run; once the pair is created, the BEFORE sandbox is
\* addressed by the app setup and by the preview-link request only.
C38_ChangesOnlyInAfter ==
  /\ AgentRunning => pc[1] = "agent"
  /\ pc[1] \in {"agent", "publish"}
     => /\ run[1].target = run[1].after
        /\ run[1].target = AfterId(1)
        /\ run[1].target # run[1].before
  /\ (pc[1] \in TargetedStages /\ run[1].target = run[1].before)
     => pc[1] \in {"setupBefore", "previewBefore"}
  /\ pc[1] \in TargetedStages => run[1].target \in {run[1].before, run[1].after}

\* The agent command is being executed, in the AFTER sandbox.
C38_Witness ==
  /\ pc[1] = "agent" /\ aPc = "exec"
  /\ run[1].before = BeforeId(1)
  /\ run[1].target = AfterId(1)

\* C35: in every reachable state a run record with status completed holds
\* both sandbox ids, and they are the two ids of the pair of one invocation
\* that worked on this issue and has ended, also when several events for
\* the issue are processed concurrently.
C35_CompletedHoldsOnePair ==
  \A n \in DOMAIN issues :
    issues[n].status = "completed"
    => /\ {"beforeWorkspaceId", "afterWorkspaceId"} \subseteq DOMAIN issues[n]
       /\ \E h \in Handlers :
            /\ run[h].issueNumber = n /\ pc[h] = "done"
            /\ run[h].publication # "none"
            /\ issues[n].beforeWorkspaceId = BeforeId(h)
            /\ issues[n].afterWorkspaceId = AfterId(h)
            /\ run[h].before = BeforeId(h) /\ run[h].after = AfterId(h)

\* Two runs for the same issue have both completed and the record holds the
\* pair of the first invocation, whose final update came last.
C35_Witness ==
  /\ run[1].issueNumber = run[2].issueNumber
  /\ run[1].publication = "created" /\ run[2].publication = "created"
  /\ pc[1] = "done" /\ pc[2] = "done"
  /\ issues[run[1].issueNumber].status = "completed"
  /\ issues[run[1].issueNumber].beforeWorkspaceId = BeforeId(1)
  /\ issues[run[1].issueNumber].afterWorkspaceId = AfterId(1)

====
